---------------------------- MODULE Spec2Model ----------------------------
(***************************************************************************)
(* EnviroPlus monitor (src/EnviroPlus/main.py): the steady-state tick loop *)
(* of mainloop, the acquisition and calibration of a reading, the local    *)
(* store, and the Luftdaten push.                                          *)
(*                                                                         *)
(* Numbers.  A raw sensor value is a rational num/den; round(x, 2) is the  *)
(* integer number of hundredths nearest to x (ties to even), so a reading  *)
(* field 1178 stands for 11.78.  Particulate values are integers and       *)
(* round(int, 2) leaves an integer unchanged.  Times are whole seconds.    *)
(***************************************************************************)
EXTENDS Integers, Sequences, FiniteSets, TLC

VARIABLES
    cfg,               \* the settings block, fixed at process start
    pc,                \* position of main(): init, gate, loop, stopped, exit, crashed
    now,               \* the wall clock, in seconds
    previous_time,     \* mainloop local: reference time of the cadence
    data,              \* mainloop local: the last reading
    measurement_time,  \* mainloop local: its time ("-" is NoTime)
    table,             \* columns of the table init_local_db created
    rows,              \* rows of that table
    connection,        \* module global: None, open or closed
    mainloop_errors,   \* module global
    current_scene_id,  \* module global
    exit_code,         \* result of main(), NoExit while running
    released,          \* resources released on the operator interrupt, in order
    ticks,             \* number of ticks begun
    tick,              \* what the last tick did (observation only)
    last_sample,       \* the last tick whose sample was due: its time, and
                       \* the seconds that had elapsed since the reference
    fired,             \* number of ticks whose sample was due
    faulted,           \* whether the environment has raised in any tick
    last_ok,           \* data and time returned by the last completed acquisition
    push,              \* one call of send_to_luftdaten: its inputs and outcome
    sensors            \* what the sensors returned to the last acquisition

vars == <<cfg, pc, now, previous_time, data, measurement_time, table, rows, connection,
          mainloop_errors, current_scene_id, exit_code, released, ticks, tick,
          last_sample, fired, faulted, last_ok, push, sensors>>

loopvars == <<pc, now, previous_time, data, measurement_time, table, rows, connection,
              mainloop_errors, current_scene_id, exit_code, released, ticks,
              tick, last_sample, fired, faulted, last_ok, sensors>>

-----------------------------------------------------------------------------
(* Bounds of the model *)

MaxTicks == 4

-----------------------------------------------------------------------------
(* Settings (main.py, "EDITABLE: Settings") *)

ROUND_DATA_TO_DP == 2

MEASUREMENT_FREQUENCY == 2

START_AT_MULTIPLE_OF == 5

PROXIMITY_THRESHOLD == 1500

LAST_SCENE == 2

TEMP_COMPENSATION_FACTOR == <<9, 4>>

update_delay == 60 \div MEASUREMENT_FREQUENCY

Default ==
    [MEASURE_PM25 |-> TRUE, MEASURE_PM10 |-> TRUE, MEASURE_TEMPERATURE |-> TRUE,
     MEASURE_PRESSURE |-> TRUE, MEASURE_HUMIDITY |-> TRUE, MEASURE_GASES |-> TRUE,
     MEASURE_CPU_TEMPERATURE |-> FALSE, COMPENSATE_TEMPERATURE |-> TRUE,
     ENABLE_OPEN_WEATHER_API |-> FALSE, SAVE_DATA_LOCALLY |-> TRUE,
     SEND_TO_MONGODB |-> FALSE, SEND_TO_LUFTDATEN |-> FALSE, VERBOSE |-> TRUE,
     INSTANT_ACQUISITION_START |-> FALSE]

FlagNames ==
    {"MEASURE_PM25", "MEASURE_PM10", "MEASURE_TEMPERATURE", "MEASURE_PRESSURE",
     "MEASURE_HUMIDITY", "MEASURE_GASES", "MEASURE_CPU_TEMPERATURE"}

\* Default with the flags of `on` set and the flags of `off` cleared.
With(c, on, off) ==
    [k \in DOMAIN c |-> IF k \in on THEN TRUE ELSE IF k \in off THEN FALSE ELSE c[k]]

\* The settings the main program is run under in this model.
Configs ==
    { Default,
      With(Default, {"ENABLE_OPEN_WEATHER_API"}, {}),
      With(Default, {"INSTANT_ACQUISITION_START", "SEND_TO_LUFTDATEN"},
                    {"SAVE_DATA_LOCALLY", "VERBOSE"}),
      With(Default, {"MEASURE_CPU_TEMPERATURE", "INSTANT_ACQUISITION_START"},
                    {"MEASURE_PM25", "MEASURE_GASES", "COMPENSATE_TEMPERATURE",
                     "VERBOSE"}) }

\* Every setting of the measurement flags, the rest as in Default.
MeasureConfigs ==
    { With(Default, on, FlagNames \ on) : on \in SUBSET FlagNames }

-----------------------------------------------------------------------------
(* Arithmetic: Python's round(x, ROUND_DATA_TO_DP) on x = num/den, den > 0 *)

Pow10(n) == IF n = 0 THEN 1 ELSE IF n = 1 THEN 10 ELSE 100

\* A rounding to the hundredth above the value, which moves a value that
\* is already a whole number of hundredths.
round_Above(num, den) == (num * Pow10(ROUND_DATA_TO_DP)) \div den + 1

round(num, den) ==
    LET scaled == num * Pow10(ROUND_DATA_TO_DP)
        q == scaled \div den
        r == scaled % den
    IN  IF 2 * r < den THEN q
        ELSE IF 2 * r > den THEN q + 1
        ELSE IF q % 2 = 0 THEN q ELSE q + 1

-----------------------------------------------------------------------------
(* Acquisition and calibration (main.py, get_sensor_data) *)

\* What the sensors return on one acquisition: rationals <<num, den>> for the
\* BME280 and the CPU temperature (an integer of millidegrees over 1000),
\* integers for the PMS5003 and for the gas resistances in ohms.
RawSamples ==
    { [temperature |-> <<22, 1>>, cpu_temperature |-> <<45000, 1000>>,
       pressure |-> <<1013256, 1000>>, humidity |-> <<40125, 1000>>,
       pm25 |-> 7, pm10 |-> 12,
       oxidising |-> 123456, reducing |-> 456789, nh3 |-> 50005],
      [temperature |-> <<43, 2>>, cpu_temperature |-> <<50123, 1000>>,
       pressure |-> <<99804, 100>>, humidity |-> <<611, 8>>,
       pm25 |-> 0, pm10 |-> 3,
       oxidising |-> 999, reducing |-> 20000, nh3 |-> 1] }

calibrate_temperature(temperature) == round(temperature[1], temperature[2])

calibrate_pressure(pressure) == round(pressure[1], pressure[2])

calibrate_humidity(humidity) == round(humidity[1], humidity[2])

\* round(int, 2) of a Python int is that int
calibrate_pm25(pm25) == round(pm25, 1) \div Pow10(ROUND_DATA_TO_DP)

calibrate_pm10(pm10) == round(pm10, 1) \div Pow10(ROUND_DATA_TO_DP)

\* A compensation that adds the correction instead of subtracting it.
compensate_temperature_Added(raw_temp, cpu_temp) ==
    LET fn == TEMP_COMPENSATION_FACTOR[1]
        fd == TEMP_COMPENSATION_FACTOR[2]
        diff == cpu_temp[1] * raw_temp[2] - raw_temp[1] * cpu_temp[2]
        den == raw_temp[2] * cpu_temp[2] * fn
        num == raw_temp[1] * cpu_temp[2] * fn + diff * fd
    IN  round(num, den)

\* raw_temp - ((cpu_temp - raw_temp) / comp_factor), rounded; the result is a
\* number of hundredths
compensate_temperature(raw_temp, cpu_temp) ==
    LET fn == TEMP_COMPENSATION_FACTOR[1]
        fd == TEMP_COMPENSATION_FACTOR[2]
        diff == cpu_temp[1] * raw_temp[2] - raw_temp[1] * cpu_temp[2]
        den == raw_temp[2] * cpu_temp[2] * fn
        num == raw_temp[1] * cpu_temp[2] * fn - diff * fd
    IN  round(num, den)

\* An output that holds every field whatever the settings.
OutputKeys_All(c) ==
    {"temperature", "pressure", "humidity", "P2", "P1", "cpu_temperature",
     "oxidising", "reducing", "nh3"}

\* The keys get_sensor_data puts in its output under settings c.
OutputKeys(c) ==
    (IF c.MEASURE_TEMPERATURE THEN {"temperature"} ELSE {})
    \cup (IF c.MEASURE_PRESSURE THEN {"pressure"} ELSE {})
    \cup (IF c.MEASURE_HUMIDITY THEN {"humidity"} ELSE {})
    \cup (IF c.MEASURE_PM25 THEN {"P2"} ELSE {})
    \cup (IF c.MEASURE_PM10 THEN {"P1"} ELSE {})
    \cup (IF c.MEASURE_CPU_TEMPERATURE THEN {"cpu_temperature"} ELSE {})
    \cup (IF c.MEASURE_GASES THEN {"oxidising", "reducing", "nh3"} ELSE {})

get_sensor_data(raw, c) ==
    LET temperature ==
            IF c.COMPENSATE_TEMPERATURE
            THEN <<compensate_temperature(raw.temperature, raw.cpu_temperature),
                   Pow10(ROUND_DATA_TO_DP)>>
            ELSE raw.temperature
    IN  [k \in OutputKeys(c) |->
            CASE k = "temperature" -> calibrate_temperature(temperature)
              [] k = "pressure" -> calibrate_pressure(raw.pressure)
              [] k = "humidity" -> calibrate_humidity(raw.humidity)
              [] k = "P2" -> calibrate_pm25(raw.pm25)
              [] k = "P1" -> calibrate_pm10(raw.pm10)
              [] k = "cpu_temperature" ->
                    round(raw.cpu_temperature[1], raw.cpu_temperature[2])
              [] k = "oxidising" -> round(raw.oxidising, 1000)
              [] k = "reducing" -> round(raw.reducing, 1000)
              [] k = "nh3" -> round(raw.nh3, 1000)]

\* dict(): the reading before any acquisition
EmptyReading == [k \in {} |-> 0]

\* measurement_time = "-"
NoTime == -1

-----------------------------------------------------------------------------
(* Local database (main.py, init_local_db and send_to_local_db) *)

\* A block of columns when its mode is on.
Block(names, mode) == IF mode THEN names ELSE <<>>

\* The columns of CREATE TABLE, from sql_code_blocks.
init_local_db(c) ==
    <<"time">>
    \o Block(<<"Temperature">>, c.MEASURE_TEMPERATURE)
    \o Block(<<"Humidity">>, c.MEASURE_HUMIDITY)
    \o Block(<<"Pressure">>, c.MEASURE_PRESSURE)
    \o Block(<<"CPUTemperature">>, c.MEASURE_CPU_TEMPERATURE)
    \o Block(<<"PM25">>, c.MEASURE_PM25)
    \o Block(<<"PM10">>, c.MEASURE_PM10)
    \o Block(<<"OxidisingGases", "ReducingGases", "Ammonia">>, c.MEASURE_GASES)
    \o Block(<<"APITemperature", "APIHumidity", "APIPressure", "APIWindSpeed",
               "APIWindAngle">>, c.ENABLE_OPEN_WEATHER_API)

\* The keys whose values the INSERT lists after the time, in order.
InsertKeys(c) ==
    Block(<<"temperature">>, c.MEASURE_TEMPERATURE)
    \o Block(<<"humidity">>, c.MEASURE_HUMIDITY)
    \o Block(<<"pressure">>, c.MEASURE_PRESSURE)
    \o Block(<<"cpu_temperature">>, c.MEASURE_CPU_TEMPERATURE)
    \o Block(<<"P2">>, c.MEASURE_PM25)
    \o Block(<<"P1">>, c.MEASURE_PM10)
    \o Block(<<"oxidising", "reducing", "nh3">>, c.MEASURE_GASES)

\* data.get(key): the string None when the key is absent
Get(d, key) == IF key \in DOMAIN d THEN d[key] ELSE "None"

\* The VALUES of the INSERT statement send_to_local_db builds.
InsertValues(d, time, c) ==
    <<time>> \o [i \in 1..Len(InsertKeys(c)) |-> Get(d, InsertKeys(c)[i])]

\* cursor.execute: SQLite refuses a row whose value count differs from the
\* table's column count, or that names the bare word None.
Accepts(columns, d, c) ==
    /\ Len(InsertKeys(c)) + 1 = Len(columns)
    /\ \A i \in 1..Len(InsertKeys(c)) : InsertKeys(c)[i] \in DOMAIN d

-----------------------------------------------------------------------------
(* The cadence and the display scene (main.py, mainloop) *)

\* A cadence check that misses the tick landing exactly on the boundary.
Due_Strict(current_time, reference) == current_time - reference > update_delay

\* if time_difference >= update_delay
Due(current_time, reference) == current_time - reference >= update_delay

\* A reset to the computed next boundary instead of the firing time.
ResetReference_Boundary(current_time, reference) == reference + update_delay

\* previous_time = current_time
ResetReference(current_time, reference) == current_time

\* A reference reset only once the acquisition has returned.
Reference_AfterAcquire(current_time, reference, due, acquired) ==
    IF due /\ acquired THEN ResetReference(current_time, reference)
    ELSE reference

\* A reference reset on every tick, due or not.
Reference_EveryTick(current_time, reference, due, acquired) ==
    ResetReference(current_time, reference)

\* The reference after a tick: the reset is the first statement under the
\* cadence check, before get_sensor_data is called, so it does not depend
\* on whether the acquisition returns.
Reference(current_time, reference, due, acquired) ==
    IF due THEN ResetReference(current_time, reference) ELSE reference

\* A threshold test that also advances at the threshold itself.
NextScene_AtThreshold(scene, proximity) ==
    IF proximity >= PROXIMITY_THRESHOLD
    THEN IF scene + 1 > LAST_SCENE THEN 0 ELSE scene + 1
    ELSE scene

\* A transition that never goes back to the first scene.
NextScene_NoWrap(scene, proximity) ==
    IF proximity > PROXIMITY_THRESHOLD THEN scene + 1 ELSE scene

\* if proximity > 1_500: current_scene_id += 1; if current_scene_id > 2: ... = 0
NextScene(scene, proximity) ==
    IF proximity > PROXIMITY_THRESHOLD
    THEN IF scene + 1 > LAST_SCENE THEN 0 ELSE scene + 1
    ELSE scene

\* The colour display_status_bg fills the display with.
display_status_bg(errors) == IF errors THEN "red" ELSE "green"

\* A handler that flips the flag: a second failed tick clears it.
ExceptHandler_Toggle(errors) == ~errors

\* A handler that logs and leaves the flag as it was.
ExceptHandler_LogOnly(errors) == errors

\* except Exception as e: mainloop_errors = True
ExceptHandler(errors) == TRUE

\* `except Exception` catches an exception and lets KeyboardInterrupt through.
Caught(kind) == kind = "exception"

\* percent=time_difference / update_delay, the argument of
\* display_progress_bar, as a rational <<num, den>>
percent(time_difference) == <<time_difference, update_delay>>

\* An assignment made whether or not the call returned.
Assigned_Always(old, new, returned) == new

\* data, measurement_time = get_sensor_data(...): both are assigned from the
\* returned pair, or neither when the call raises
Assigned(old, new, returned) == IF returned THEN new ELSE old

-----------------------------------------------------------------------------
(* Inputs of a tick *)

\* Seconds from one tick's time.time() to the next's: half an interval (two
\* such ticks make up exactly update_delay) and a stall of 10 intervals.
Durations == {update_delay \div 2, 10 * update_delay}

\* Values of ltr559.get_proximity()
Proximities == {PROXIMITY_THRESHOLD, PROXIMITY_THRESHOLD + 1}

\* The values standing for an input the tick never reads.
IdleProximity == PROXIMITY_THRESHOLD

IdleRaw == CHOOSE r \in RawSamples : r.pm25 = 0

\* The steps of a tick that call out of mainloop, in program order.
StepNo ==
    [s \in {"acquire", "verbose", "store", "proximity", "render", "sleep", "end"} |->
        CASE s = "acquire" -> 1 [] s = "verbose" -> 2 [] s = "store" -> 3
          [] s = "proximity" -> 4 [] s = "render" -> 5 [] s = "sleep" -> 6
          [] s = "end" -> 7]

StepOrder == <<"acquire", "verbose", "store", "proximity", "render", "sleep", "end">>

\* What the environment does to a tick: nothing, an exception raised by one
\* of its calls, or the operator's interrupt arriving during one of them.
\* A transient fault at the acquisition is pms5003.read() raising
\* ReadTimeoutError or ChecksumMismatchError once: a second read would return.
NoFault == [at |-> "end", kind |-> "none"]

Faults ==
    {NoFault}
    \cup {[at |-> s, kind |-> "exception"] :
            s \in {"acquire", "verbose", "store", "proximity", "render"}}
    \cup {[at |-> "acquire", kind |-> "transient"]}
    \cup {[at |-> s, kind |-> "interrupt"] : s \in {"store", "sleep"}}

NoTick ==
    [cur |-> 0, prev |-> 0, attempted |-> FALSE, acquired |-> FALSE,
     printed |-> FALSE, stored |-> FALSE, polled |-> FALSE, proximity |-> 0,
     scene_before |-> 0, rendered |-> FALSE, last_fire |-> NoTime,
     shown |-> [data |-> EmptyReading, time |-> NoTime],
     raised |-> FALSE, interrupted |-> FALSE, stop |-> "end",
     percent |-> <<0, update_delay>>, transient |-> FALSE,
     status_bg |-> "none"]

NoSample == [time |-> NoTime, gap |-> 0]

NoExit == 99

StartTimes == {270}

GateStep == 30

minute(t) == (t \div 60) % 60

-----------------------------------------------------------------------------
(* main() and mainloop() *)

NoPush == [called |-> FALSE]

Init ==
    /\ cfg \in Configs
    /\ pc = "init"
    /\ now \in StartTimes
    /\ previous_time = 0
    /\ data = EmptyReading
    /\ measurement_time = NoTime
    /\ table = <<>>
    /\ rows = <<>>
    /\ connection = "None"
    /\ mainloop_errors = FALSE
    /\ current_scene_id = 0
    /\ exit_code = NoExit
    /\ released = <<>>
    /\ ticks = 0
    /\ tick = NoTick
    /\ last_sample = NoSample
    /\ fired = 0
    /\ faulted = FALSE
    /\ last_ok = [data |-> EmptyReading, time |-> NoTime]
    /\ push = NoPush
    /\ sensors = IdleRaw

\* A main() that carries on after init() raised.
AfterInit_GoOn(ok) == "gate"

\* try: ... = init()  except Exception: ...; return -1
AfterInit(ok) == IF ok THEN "gate" ELSE "exit"

\* A gate that lets mainloop start at any minute.
GateOpen_Always(c, t) == TRUE

\* `while not INSTANT_ACQUISITION_START` is left at once when the flag is
\* set, and otherwise by the break on a minute that is a multiple.
GateOpen(c, t) ==
    c.INSTANT_ACQUISITION_START \/ minute(t) % START_AT_MULTIPLE_OF = 0

\* The status of the process when an exception leaves main(): sys.exit is
\* never reached and the interpreter exits with 1.
UncaughtExit == 1

Startup(ok) ==
    /\ pc = "init"
    /\ pc' = AfterInit(ok)
    /\ exit_code' = IF ok THEN exit_code ELSE -1
    /\ UNCHANGED <<cfg, now, previous_time, data, measurement_time, table, rows,
                   connection, mainloop_errors, current_scene_id, released,
                   ticks, tick, last_sample, fired, faulted, last_ok,
                   push, sensors>>

\* while not INSTANT_ACQUISITION_START: the minute is not yet a multiple
GateWait ==
    /\ pc = "gate"
    /\ ~GateOpen(cfg, now)
    /\ now' = now + GateStep
    /\ UNCHANGED <<cfg, pc, previous_time, data, measurement_time, table, rows,
                   connection, mainloop_errors, current_scene_id, exit_code,
                   released, ticks, tick, last_sample, fired, faulted, last_ok,
                   push, sensors>>

\* A cleanup that closes the database connection before the bus.
Cleanup_ConnectionFirst(conn) ==
    (IF cfg.SAVE_DATA_LOCALLY /\ conn # "None" THEN <<"connection">> ELSE <<>>)
    \o <<"bus", "backlight">>

\* except KeyboardInterrupt: bus.close(); display.set_backlight(0);
\* connection.close() when saving locally and connected; return 0
Cleanup(conn) ==
    <<"bus", "backlight">>
    \o (IF cfg.SAVE_DATA_LOCALLY /\ conn # "None" THEN <<"connection">> ELSE <<>>)

\* The gate opens and mainloop runs to the top of its loop; init_local_db
\* may raise, which is not caught anywhere.
EnterMainloop(dbok) ==
    /\ pc = "gate"
    /\ GateOpen(cfg, now)
    /\ previous_time' = now
    /\ data' = EmptyReading
    /\ measurement_time' = NoTime
    /\ IF cfg.SAVE_DATA_LOCALLY
       THEN IF dbok
            THEN /\ table' = init_local_db(cfg)
                 /\ connection' = "open"
                 /\ pc' = "loop"
                 /\ UNCHANGED exit_code
            ELSE /\ UNCHANGED <<table, connection>>
                 /\ pc' = "crashed"
                 /\ exit_code' = UncaughtExit
       ELSE /\ UNCHANGED <<table, connection, exit_code>>
            /\ pc' = "loop"
    /\ UNCHANGED <<cfg, now, rows, mainloop_errors, current_scene_id,
                   released, ticks, tick, last_sample, fired, faulted, last_ok,
                   push, sensors>>

\* Whether step s is executed by a tick whose sample is due or not, when
\* nothing before it raises.
Runs(s, due) ==
    CASE s = "acquire" -> due
      [] s = "verbose" -> due /\ cfg.VERBOSE
      [] s = "store" -> due /\ cfg.SAVE_DATA_LOCALLY
      [] OTHER -> TRUE

\* Whether get_sensor_data returns when its particulate read meets a fault
\* of this kind: it calls pms5003_instance.read() once, outside any try.
Survives(kind) == kind = "none"

\* What a fault of this kind is to mainloop: the PMS5003 errors are
\* subclasses of Exception.
Raised(kind) == IF kind = "transient" THEN "exception" ELSE kind

\* The first step of the tick that does not return: the one the fault hits,
\* or the INSERT when SQLite refuses it; "end" when every step returns.
StopOf(due, fault, reading) ==
    IF Runs("acquire", due) /\ fault.at = "acquire"
    THEN IF Survives(fault.kind) THEN "end" ELSE "acquire"
    ELSE IF Runs("verbose", due) /\ fault.at = "verbose" THEN "verbose"
    ELSE IF Runs("store", due)
            /\ (fault.at = "store" \/ ~Accepts(table, reading, cfg)) THEN "store"
    ELSE fault.at

\* One pass of the body of `while True`, from time.time() to the end of
\* time.sleep or to the except clause.
Tick(dt, raw, proximity, fault) ==
    /\ pc = "loop"
    /\ ticks < MaxTicks
    /\ LET current_time == now + dt
           due == Due(current_time, previous_time)
       IN
       /\ Runs(fault.at, due)
       /\ \E reading \in {get_sensor_data(raw, cfg)} :
          \E stop \in {StopOf(due, fault, reading)} :
          LET kind == IF stop = "end" THEN "none"
                      ELSE IF fault.at = stop THEN Raised(fault.kind)
                      ELSE "exception"
              goes_on == stop = "end" \/ Caught(kind)
              acquired == due /\ StepNo[stop] > StepNo["acquire"]
              printed == due /\ cfg.VERBOSE /\ StepNo[stop] > StepNo["verbose"]
              stored == due /\ cfg.SAVE_DATA_LOCALLY
                        /\ StepNo[stop] > StepNo["store"]
              polled == StepNo[stop] > StepNo["proximity"]
              rendered == StepNo[stop] > StepNo["render"]
              new_data == Assigned(data, reading, acquired)
              new_time == Assigned(measurement_time, current_time, acquired)
          IN  /\ ~acquired => raw = IdleRaw
              /\ ~polled => proximity = IdleProximity
              /\ now' = current_time
              /\ previous_time' =
                    Reference(current_time, previous_time, due, acquired)
              /\ data' = new_data
              /\ measurement_time' = new_time
              /\ rows' = IF stored
                         THEN Append(rows, InsertValues(new_data, new_time, cfg))
                         ELSE rows
              /\ current_scene_id' =
                    IF polled THEN NextScene(current_scene_id, proximity)
                    ELSE current_scene_id
              /\ mainloop_errors' =
                    IF stop # "end" /\ Caught(kind)
                    THEN ExceptHandler(mainloop_errors)
                    ELSE mainloop_errors
              /\ pc' = IF goes_on THEN "loop" ELSE "stopped"
              /\ exit_code' = IF goes_on THEN exit_code ELSE 0
              /\ released' = IF goes_on THEN released ELSE Cleanup(connection)
              /\ connection' =
                    IF goes_on \/ ~(cfg.SAVE_DATA_LOCALLY /\ connection # "None")
                    THEN connection ELSE "closed"
              /\ ticks' = ticks + 1
              /\ last_sample' =
                    IF due THEN [time |-> current_time,
                                 gap |-> current_time - previous_time]
                    ELSE last_sample
              /\ fired' = IF due THEN fired + 1 ELSE fired
              /\ faulted' = (faulted \/ Raised(fault.kind) = "exception")
              /\ last_ok' = IF acquired
                            THEN [data |-> reading, time |-> current_time]
                            ELSE last_ok
              /\ tick' =
                    [cur |-> current_time, prev |-> previous_time,
                     attempted |-> due, acquired |-> acquired,
                     printed |-> printed, stored |-> stored,
                     polled |-> polled, proximity |-> proximity,
                     scene_before |-> current_scene_id,
                     rendered |-> rendered,
                     last_fire |-> last_sample.time,
                     shown |-> IF rendered
                               THEN [data |-> new_data, time |-> new_time]
                               ELSE NoTick.shown,
                     raised |-> stop # "end" /\ kind = "exception",
                     interrupted |-> kind = "interrupt",
                     stop |-> stop,
                     percent |-> percent(current_time - previous_time),
                     transient |-> fault.kind = "transient",
                     status_bg |-> IF rendered
                                   THEN display_status_bg(mainloop_errors)
                                   ELSE "none"]
              /\ sensors' = IF acquired THEN raw ELSE sensors
    /\ UNCHANGED <<cfg, table, push>>

Next ==
    \/ \E ok \in BOOLEAN : Startup(ok)
    \/ GateWait
    \/ \E dbok \in BOOLEAN : EnterMainloop(dbok)
    \/ \E dt \in Durations, raw \in RawSamples, proximity \in Proximities,
          fault \in Faults : Tick(dt, raw, proximity, fault)

Spec == Init /\ [][Next]_vars

-----------------------------------------------------------------------------
(* Luftdaten push (main.py, send_to_luftdaten) *)

\* What requests.post does with one submission: a response that is ok, a
\* response that is not, or one of the three exceptions the call catches.
PostOutcomes == {"ok", "bad", "ConnectionError", "Timeout", "RequestException"}

\* The response object the call is left with: None after an exception.
Response(outcome) == IF outcome \in {"ok", "bad"} THEN outcome ELSE "None"

\* The first character of each key a reading can hold.
FirstChar(key) ==
    CASE key \in {"P1", "P2"} -> "P"
      [] key \in {"pressure"} -> "p"
      [] key \in {"temperature"} -> "t"
      [] key \in {"humidity"} -> "h"
      [] key \in {"cpu_temperature"} -> "c"
      [] key \in {"oxidising"} -> "o"
      [] key \in {"reducing"} -> "r"
      [] key \in {"nh3"} -> "n"

\* dict(i for i in data.items() if not i[0].startswith("P"))
climate_data_dict(d) == {k \in DOMAIN d : FirstChar(k) # "P"}

\* A climate submission posted even when the group is empty.
ClimatePosted_Always(climate_keys) == TRUE

\* if bool(climate_data_dict)
ClimatePosted(climate_keys) == climate_keys # {}

\* The last block of the function: the result from the two response objects.
CheckResponses(pm_api_response, climate_api_response) ==
    IF pm_api_response # "None" /\ climate_api_response # "None"
    THEN IF pm_api_response = "ok" /\ climate_api_response = "ok" THEN 0 ELSE -1
    ELSE IF pm_api_response # "None" /\ climate_api_response = "None"
    THEN IF pm_api_response = "ok" THEN 0 ELSE -1
    ELSE -1

\* A check that is content with one of the two particulate measurements.
Configured_Either(c) == c.MEASURE_PM25 \/ c.MEASURE_PM10

\* if not (MEASURE_PM25 and MEASURE_PM10): ...; return -1
Configured(c) == c.MEASURE_PM25 /\ c.MEASURE_PM10

\* A climate block that is skipped when the particulate post did not get
\* an ok response.
ClimateAttempted_AfterSuccess(climate_keys, pm_outcome) ==
    ClimatePosted(climate_keys) /\ pm_outcome = "ok"

\* The climate block is reached whatever the particulate post met: each of
\* its except clauses only logs, and a response that is not ok is looked at
\* only in the last block.
ClimateAttempted(climate_keys, pm_outcome) == ClimatePosted(climate_keys)

\* One call: the submissions issued (their X-PIN headers, in order), what
\* each met, and the value returned.  raised is the KeyError of data["P1"].
send_to_luftdaten(d, c, pm_outcome, climate_outcome) ==
    IF ~Configured(c)
    THEN [posts |-> <<>>, pm |-> "none", climate |-> "none", raised |-> FALSE,
          result |-> -1]
    ELSE IF ~({"P1", "P2"} \subseteq DOMAIN d)
    THEN [posts |-> <<>>, pm |-> "none", climate |-> "none", raised |-> TRUE,
          result |-> -1]
    ELSE LET posted == ClimateAttempted(climate_data_dict(d), pm_outcome)
             pm_api_response == Response(pm_outcome)
             climate_api_response ==
                 IF posted THEN Response(climate_outcome) ELSE "None"
         IN  [posts |-> IF posted THEN <<"1", "11">> ELSE <<"1">>,
              pm |-> pm_outcome,
              climate |-> IF posted THEN climate_outcome ELSE "none",
              raised |-> FALSE,
              result |-> CheckResponses(pm_api_response, climate_api_response)]

\* A reading as get_sensor_data returns it under some setting of the
\* measurement flags, about to be pushed.
InitPush ==
    /\ cfg \in MeasureConfigs
    /\ pc = "function"
    /\ now \in StartTimes
    /\ previous_time = 0
    /\ sensors \in RawSamples
    /\ data = get_sensor_data(sensors, cfg)
    /\ measurement_time = now
    /\ table = <<>>
    /\ rows = <<>>
    /\ connection = "None"
    /\ mainloop_errors = FALSE
    /\ current_scene_id = 0
    /\ exit_code = NoExit
    /\ released = <<>>
    /\ ticks = 0
    /\ tick = NoTick
    /\ last_sample = NoSample
    /\ fired = 0
    /\ faulted = FALSE
    /\ last_ok = [data |-> data, time |-> now]
    /\ push = NoPush

Push(pm_outcome, climate_outcome) ==
    /\ pc = "function"
    /\ ~push.called
    /\ LET r == send_to_luftdaten(data, cfg, pm_outcome, climate_outcome)
       IN  push' = [called |-> TRUE, posts |-> r.posts, pm |-> r.pm,
                    climate |-> r.climate, raised |-> r.raised,
                    result |-> r.result]
    /\ UNCHANGED <<cfg, loopvars>>

NextPush == \E pm_outcome \in PostOutcomes, climate_outcome \in PostOutcomes :
                Push(pm_outcome, climate_outcome)

SpecPush == InitPush /\ [][NextPush]_vars

-----------------------------------------------------------------------------
(* One reading from the sensors to the local table (main.py, init_local_db,
   get_sensor_data, send_to_local_db), under every setting of the flags *)

\* Every setting of the measurement flags, of COMPENSATE_TEMPERATURE and of
\* ENABLE_OPEN_WEATHER_API, the rest as in Default.
StoreConfigs ==
    { With(Default, on,
           (FlagNames \cup {"COMPENSATE_TEMPERATURE", "ENABLE_OPEN_WEATHER_API"}) \ on) :
        on \in SUBSET (FlagNames \cup {"COMPENSATE_TEMPERATURE",
                                       "ENABLE_OPEN_WEATHER_API"}) }

\* Sensor values beyond RawSamples: a raw temperature below zero, and one
\* whose compensated value -18.375 lies halfway between two hundredths.
StoreSamples ==
    RawSamples
    \cup { [temperature |-> <<-5, 2>>, cpu_temperature |-> <<38250, 1000>>,
            pressure |-> <<1013256, 1000>>, humidity |-> <<40125, 1000>>,
            pm25 |-> 7, pm10 |-> 12,
            oxidising |-> 123456, reducing |-> 456789, nh3 |-> 50005],
           [temperature |-> <<9, 8>>, cpu_temperature |-> <<45000, 1000>>,
            pressure |-> <<99804, 100>>, humidity |-> <<611, 8>>,
            pm25 |-> 1, pm10 |-> 3,
            oxidising |-> 999, reducing |-> 20000, nh3 |-> 1] }

InitStore ==
    /\ cfg \in StoreConfigs
    /\ pc = "function"
    /\ now \in StartTimes
    /\ previous_time = 0
    /\ data = EmptyReading
    /\ measurement_time = NoTime
    /\ table = <<>>
    /\ rows = <<>>
    /\ connection = "None"
    /\ mainloop_errors = FALSE
    /\ current_scene_id = 0
    /\ exit_code = NoExit
    /\ released = <<>>
    /\ ticks = 0
    /\ tick = NoTick
    /\ last_sample = NoSample
    /\ fired = 0
    /\ faulted = FALSE
    /\ last_ok = [data |-> EmptyReading, time |-> NoTime]
    /\ push = NoPush
    /\ sensors = IdleRaw

\* init_local_db(): CREATE TABLE
CreateTable ==
    /\ pc = "function"
    /\ table' = init_local_db(cfg)
    /\ connection' = "open"
    /\ pc' = "created"
    /\ UNCHANGED <<cfg, now, previous_time, data, measurement_time, rows,
                   mainloop_errors, current_scene_id, exit_code, released,
                   ticks, tick, last_sample, fired, faulted, last_ok, push,
                   sensors>>

\* data, measurement_time = get_sensor_data(...)
Acquire(raw) ==
    /\ pc = "created"
    /\ sensors' = raw
    /\ data' = get_sensor_data(raw, cfg)
    /\ measurement_time' = now
    /\ last_ok' = [data |-> data', time |-> now]
    /\ pc' = "acquired"
    /\ UNCHANGED <<cfg, now, previous_time, table, rows, connection,
                   mainloop_errors, current_scene_id, exit_code, released,
                   ticks, tick, last_sample, fired, faulted, push>>

\* send_to_local_db(data, measurement_time): INSERT, which SQLite takes or
\* refuses
Insert ==
    /\ pc = "acquired"
    /\ IF Accepts(table, data, cfg)
       THEN /\ rows' = Append(rows, InsertValues(data, measurement_time, cfg))
            /\ pc' = "inserted"
       ELSE /\ rows' = rows
            /\ pc' = "refused"
    /\ UNCHANGED <<cfg, now, previous_time, data, measurement_time, table,
                   connection, mainloop_errors, current_scene_id, exit_code,
                   released, ticks, tick, last_sample, fired, faulted, last_ok,
                   push, sensors>>

NextStore ==
    \/ CreateTable
    \/ \E raw \in StoreSamples : Acquire(raw)
    \/ Insert

SpecStore == InitStore /\ [][NextStore]_vars

-----------------------------------------------------------------------------
(* Properties of the cadence *)

\* C1: on every tick of mainloop a sample is taken if and only if
\* current_time - previous_time >= update_delay, and a tick that takes a
\* sample leaves previous_time equal to that tick's current_time (a tick that
\* takes none leaves it alone).
C1_SampleIffDue ==
    ticks > 0 =>
        /\ tick.attempted <=> (tick.cur - tick.prev >= update_delay)
        /\ tick.attempted => previous_time = tick.cur
        /\ ~tick.attempted => previous_time = tick.prev

\* A sample taken on a tick that is overdue, where the firing time and the
\* next boundary differ.
C1_Witness ==
    /\ ticks > 0
    /\ tick.attempted
    /\ tick.cur - tick.prev > update_delay
    /\ previous_time = tick.cur
    /\ previous_time # tick.prev + update_delay

\* C2: a tick on which at least one interval has elapsed (however many)
\* takes a sample, and no tick takes a sample sooner than a full interval
\* after the previous tick that took one: the intervals missed during a stall
\* are not caught up.
C2_NoCatchUp ==
    ticks > 0 =>
        /\ tick.cur - tick.prev >= update_delay => tick.attempted
        /\ (tick.attempted /\ tick.last_fire # NoTime)
              => tick.cur - tick.last_fire >= update_delay

\* After a sample taken on a stall of 10 intervals, a later tick inside the
\* next interval that takes no sample.
C2_Witness ==
    /\ ticks > 1
    /\ last_sample.time # NoTime
    /\ last_sample.gap >= 10 * update_delay
    /\ ~tick.attempted
    /\ tick.cur > last_sample.time
    /\ tick.cur - last_sample.time < update_delay

-----------------------------------------------------------------------------
(* Properties of the dispatch to the sinks *)

\* C3: with local saving enabled and no fault raised by the environment, the
\* local store holds exactly one row per tick on which the cadence fired
\* (none for a tick on which the interval had not elapsed), and the row of a
\* firing tick holds that tick's time and calibrated values.
C3_OneRowPerFiredTick ==
    (pc \in {"loop", "stopped"} /\ cfg.SAVE_DATA_LOCALLY /\ ~faulted) =>
        /\ Len(rows) = fired
        /\ (ticks > 0 /\ tick.attempted) =>
              rows[Len(rows)] = InsertValues(last_ok.data, tick.cur, cfg)

\* C4: on a tick that dispatches a reading and on which a sink (console
\* output, local store, display) raises, every active sink is still
\* attempted: the local store when saving locally, and the display.
C4_SinkIsolation ==
    (ticks > 0 /\ tick.acquired /\ tick.raised
     /\ tick.stop \in {"verbose", "store", "render"}) =>
        /\ cfg.SAVE_DATA_LOCALLY => StepNo[tick.stop] >= StepNo["store"]
        /\ StepNo[tick.stop] >= StepNo["render"]

\* C5: send_to_luftdaten returns 0 only if every submission it attempted
\* reported success; a climate group that is empty is not attempted.
C5_SuccessOnlyIfAllSucceeded ==
    (push.called /\ push.result = 0) =>
        /\ push.pm = "ok"
        /\ push.climate \in {"ok", "none"}

\* C6 as stated: a reading with only particulate fields issues exactly one
\* submission (X-PIN 1), one with particulate and climate fields exactly two
\* (X-PIN 1 and X-PIN 11), one with neither none, and an empty group never
\* produces a submission.
C6_OnePostPerGroupPresent ==
    push.called =>
        LET particulate == DOMAIN data \cap {"P1", "P2"}
            climate == DOMAIN data \ {"P1", "P2"}
            pins == {push.posts[i] : i \in 1..Len(push.posts)}
        IN  /\ (particulate # {} /\ climate = {}) => push.posts = <<"1">>
            /\ (particulate # {} /\ climate # {}) => push.posts = <<"1", "11">>
            /\ (particulate = {} /\ climate = {}) => push.posts = <<>>
            /\ particulate = {} => "1" \notin pins
            /\ climate = {} => "11" \notin pins

\* C6 as amended: a reading holding both P1 and P2 issues X-PIN 1, followed
\* by X-PIN 11 exactly when it also holds a climate field; a reading lacking
\* P1 or P2 issues no submission at all, whatever climate fields it holds.
C6_PostsWhenBothParticulates ==
    push.called =>
        push.posts =
            IF {"P1", "P2"} \subseteq DOMAIN data
            THEN <<"1">>
                 \o (IF DOMAIN data \ {"P1", "P2"} # {} THEN <<"11">> ELSE <<>>)
            ELSE <<>>

\* A reading of particulate fields only, pushed with a single submission.
C6_Witness ==
    /\ push.called
    /\ DOMAIN data = {"P1", "P2"}
    /\ push.posts = <<"1">>

-----------------------------------------------------------------------------
(* Properties of a tick *)

\* C7: an exception raised by any call of a tick is caught at the tick
\* boundary: it sets mainloop_errors and leaves main() in the loop, with no
\* exit result.
C7_TickExceptionCaught ==
    (ticks > 0 /\ tick.raised) =>
        /\ mainloop_errors
        /\ pc = "loop"
        /\ exit_code = NoExit

\* A tick that ran to its end after an earlier tick raised.
C7_Witness ==
    /\ ticks > 1
    /\ mainloop_errors
    /\ ~tick.raised
    /\ tick.rendered
    /\ pc = "loop"

\* C8: a tick that polls a proximity not above the threshold leaves the
\* scene index unchanged; one that polls a value above it advances the index
\* by one step, from the last scene to scene 0; a tick that does not reach
\* the poll leaves it unchanged.
C8_SceneTransition ==
    ticks > 0 =>
        current_scene_id =
            IF tick.polled /\ tick.proximity > PROXIMITY_THRESHOLD
            THEN (tick.scene_before + 1) % (LAST_SCENE + 1)
            ELSE tick.scene_before

\* The wrap from the last scene to scene 0.
C8_Witness ==
    /\ ticks > 0
    /\ tick.polled
    /\ tick.proximity > PROXIMITY_THRESHOLD
    /\ tick.scene_before = LAST_SCENE
    /\ current_scene_id = 0

\* C9: every tick polls the proximity sensor and renders the display,
\* whether or not a sample was due and whether or not acquisition or dispatch
\* failed (ticks in which the poll or the render itself raises, or which the
\* operator interrupts, aside).
C9_AlwaysPollAndRender ==
    (ticks > 0 /\ ~tick.interrupted /\ tick.stop \notin {"proximity", "render"}) =>
        /\ tick.polled
        /\ tick.rendered

\* C10: data and measurement_time are at all times those of the most recent
\* acquisition that returned (the empty reading and "-" before any), and
\* every render shows that pair.
C10_RenderShowsLastAcquisition ==
    pc \in {"loop", "stopped"} =>
        /\ data = last_ok.data
        /\ measurement_time = last_ok.time
        /\ (ticks > 0 /\ tick.rendered) => tick.shown = last_ok

\* A render of a stale reading: the last due tick's acquisition raised after
\* an earlier one had returned.
C10_Witness ==
    /\ ticks > 1
    /\ tick.rendered
    /\ last_ok.time # NoTime
    /\ last_sample.time > last_ok.time
    /\ tick.shown = last_ok
    /\ tick.shown.data # EmptyReading

-----------------------------------------------------------------------------
(* Properties of the display's progress bar *)

\* C11: the fraction passed to display_progress_bar on every tick that
\* renders is min(1, elapsed / interval): never negative and never above 1,
\* also on a tick whose sample is due or overdue.
C11_ProgressFractionSaturates ==
    tick.rendered =>
        LET elapsed == tick.cur - tick.prev
            capped == IF elapsed < update_delay THEN elapsed ELSE update_delay
        IN  /\ tick.percent[1] >= 0
            /\ tick.percent[1] <= tick.percent[2]
            /\ tick.percent[1] * update_delay = capped * tick.percent[2]

-----------------------------------------------------------------------------
(* Properties of the local table *)

\* The key of the reading that a column of the table is meant to hold.
KeyOf(column) ==
    CASE column = "Temperature" -> "temperature"
      [] column = "Humidity" -> "humidity"
      [] column = "Pressure" -> "pressure"
      [] column = "CPUTemperature" -> "cpu_temperature"
      [] column = "PM25" -> "P2"
      [] column = "PM10" -> "P1"
      [] column = "OxidisingGases" -> "oxidising"
      [] column = "ReducingGases" -> "reducing"
      [] column = "Ammonia" -> "nh3"
      [] OTHER -> "none"

\* C12: under every setting of the flags the row send_to_local_db inserts
\* has exactly the columns of the table init_local_db created, in the same
\* order: as many values as columns, the time first, then the value of each
\* column's measurement; SQLite never refuses the row.
C12_InsertMatchesTable ==
    pc \in {"acquired", "inserted", "refused"} =>
        LET values == InsertValues(data, measurement_time, cfg)
        IN  /\ Len(values) = Len(table)
            /\ table[1] = "time" /\ values[1] = measurement_time
            /\ \A i \in 2..Len(table) :
                  /\ KeyOf(table[i]) \in DOMAIN data
                  /\ values[i] = data[KeyOf(table[i])]
            /\ pc # "refused"

-----------------------------------------------------------------------------
(* Properties of the acquisition *)

\* C13: a due tick whose particulate read fails once with a transient
\* checksum or timeout error (a second read would succeed) still completes
\* its acquisition: the sensor is reset, the read retried, and the tick is
\* not a failed tick.
C13_TransientParticulateFaultRetried ==
    (tick.attempted /\ tick.transient) =>
        /\ tick.acquired
        /\ ~tick.raised

-----------------------------------------------------------------------------
(* Properties of start-up and shutdown *)

\* C14: when INSTANT_ACQUISITION_START is off, main leaves the gate for
\* mainloop only at a clock whose minute is a multiple of
\* START_AT_MULTIPLE_OF, and no tick runs and no sample is taken while main
\* is still before or at the gate; once in the loop, ticks take no account
\* of the minute.
C14_GateBeforeMainloop ==
    [][ /\ (pc = "gate" /\ pc' # "gate" /\ ~cfg.INSTANT_ACQUISITION_START)
            => minute(now) % START_AT_MULTIPLE_OF = 0
        /\ pc' \in {"init", "gate"}
            => (ticks' = 0 /\ fired' = 0 /\ data' = EmptyReading)
        /\ (pc = "loop" /\ ticks' = ticks + 1)
            => (tick'.attempted <=> tick'.cur - tick'.prev >= update_delay) ]_vars

\* A run that waited at the gate, entered mainloop on a multiple of 5
\* minutes and then sampled at a minute that is not one.
C14_Witness ==
    /\ ~cfg.INSTANT_ACQUISITION_START
    /\ pc = "loop"
    /\ tick.acquired
    /\ minute(tick.cur) % START_AT_MULTIPLE_OF # 0
    /\ fired >= 2

\* C15: mainloop is left only by the operator's interrupt, and main then
\* closes the I2C bus, sets the backlight to 0 and closes the database
\* connection (when SAVE_DATA_LOCALLY is on and a connection exists), in
\* that order, and returns 0; nothing is released before.
C15_InterruptReleasesInOrder ==
    /\ pc = "stopped" =>
          /\ tick.interrupted /\ ~tick.raised
          /\ exit_code = 0
          /\ Len(released) >= 2
          /\ released[1] = "bus" /\ released[2] = "backlight"
          /\ IF cfg.SAVE_DATA_LOCALLY /\ table # <<>>
             THEN Len(released) = 3 /\ released[3] = "connection"
                  /\ connection = "closed"
             ELSE Len(released) = 2 /\ connection = "None"
    /\ pc # "stopped" => released = <<>> /\ connection # "closed" /\ exit_code # 0
    /\ (pc = "loop" /\ ticks > 0) => ~tick.interrupted

\* The interrupt arrives after samples were stored, with the connection open.
C15_Witness ==
    /\ pc = "stopped"
    /\ cfg.SAVE_DATA_LOCALLY
    /\ rows # <<>>
    /\ released = <<"bus", "backlight", "connection">>
    /\ mainloop_errors

\* The interrupt arrives in a run that keeps no local database.
C15_WitnessNoStore ==
    /\ pc = "stopped"
    /\ ~cfg.SAVE_DATA_LOCALLY
    /\ fired > 0
    /\ released = <<"bus", "backlight">>

\* C16: when init() raises, or init_local_db() raises on entering mainloop,
\* the process ends with a non-zero status and no tick is ever run: nothing
\* is acquired, stored or shown; and a run that has ticked had no such fault.
C16_InitFaultIsFatal ==
    /\ pc \in {"exit", "crashed"} =>
          /\ exit_code \notin {0, NoExit}
          /\ ticks = 0 /\ fired = 0
          /\ data = EmptyReading /\ rows = <<>>
    /\ (exit_code \notin {0, NoExit}) =>
          (pc \in {"exit", "crashed"} /\ ticks = 0)
    /\ (pc = "exit" => table = <<>>)

\* init() raised: main returned -1 before the gate.
C16_Witness ==
    pc = "exit" /\ exit_code = -1 /\ ticks = 0

\* init_local_db() raised on entering mainloop.
C16_WitnessStore ==
    pc = "crashed" /\ exit_code = UncaughtExit /\ cfg.SAVE_DATA_LOCALLY /\ ticks = 0

-----------------------------------------------------------------------------
(* Properties of the reading *)

\* C17: under every setting of the measurement flags the reading that
\* get_sensor_data returns holds a field exactly when its measurement is
\* enabled (the three gas fields together); a disabled measurement's field
\* is absent, not present with a zero or placeholder.
C17_FieldIffEnabled ==
    pc \in {"acquired", "inserted", "refused"} =>
        /\ ("temperature" \in DOMAIN data) <=> cfg.MEASURE_TEMPERATURE
        /\ ("pressure" \in DOMAIN data) <=> cfg.MEASURE_PRESSURE
        /\ ("humidity" \in DOMAIN data) <=> cfg.MEASURE_HUMIDITY
        /\ ("P2" \in DOMAIN data) <=> cfg.MEASURE_PM25
        /\ ("P1" \in DOMAIN data) <=> cfg.MEASURE_PM10
        /\ ("cpu_temperature" \in DOMAIN data) <=> cfg.MEASURE_CPU_TEMPERATURE
        /\ \A g \in {"oxidising", "reducing", "nh3"} :
              (g \in DOMAIN data) <=> cfg.MEASURE_GASES
        /\ DOMAIN data \subseteq
              {"temperature", "pressure", "humidity", "P2", "P1",
               "cpu_temperature", "oxidising", "reducing", "nh3"}

\* A reading taken with PM2.5 and the gases disabled, whose PM2.5 sensor
\* value is itself 0, and with the CPU temperature enabled.
C17_Witness ==
    /\ pc = "acquired"
    /\ ~cfg.MEASURE_PM25 /\ ~cfg.MEASURE_GASES
    /\ cfg.MEASURE_PM10 /\ cfg.MEASURE_CPU_TEMPERATURE
    /\ sensors.pm25 = 0
    /\ DOMAIN data \cap {"P2", "P1", "nh3", "cpu_temperature"}
          = {"P1", "cpu_temperature"}

\* Whether c hundredths is a nearest number of hundredths to
\* T_raw - (T_cpu - T_raw) / F, for rationals T_raw, T_cpu and F.
NearestCompensated(c, T_raw, T_cpu, F) ==
    LET num == T_raw[1] * T_cpu[2] * F[1]
               - (T_cpu[1] * T_raw[2] - T_raw[1] * T_cpu[2]) * F[2]
        den == T_raw[2] * T_cpu[2] * F[1]
        twice == 2 * Pow10(ROUND_DATA_TO_DP) * num - 2 * c * den
    IN  twice <= den /\ -twice <= den

\* C18 as stated: the compensated temperature is
\* round(T_raw - (T_cpu - T_raw) / F, precision), and for T_raw = 22.0,
\* T_cpu = 45.0, F = 2.25, precision = 2 it is 12.78.
C18_CompensationLiteral1278 ==
    (pc = "acquired" /\ cfg.MEASURE_TEMPERATURE /\ cfg.COMPENSATE_TEMPERATURE) =>
        /\ NearestCompensated(data.temperature, sensors.temperature,
                              sensors.cpu_temperature, TEMP_COMPENSATION_FACTOR)
        /\ (sensors.temperature = <<22, 1>>
            /\ sensors.cpu_temperature = <<45000, 1000>>)
              => data.temperature = 1278

\* C18 as amended: the compensated temperature is
\* round(T_raw - (T_cpu - T_raw) / F, precision), and for T_raw = 22.0,
\* T_cpu = 45.0, F = 2.25, precision = 2 it is 11.78.
C18_CompensationLiteral1178 ==
    (pc = "acquired" /\ cfg.MEASURE_TEMPERATURE /\ cfg.COMPENSATE_TEMPERATURE) =>
        /\ NearestCompensated(data.temperature, sensors.temperature,
                              sensors.cpu_temperature, TEMP_COMPENSATION_FACTOR)
        /\ (sensors.temperature = <<22, 1>>
            /\ sensors.cpu_temperature = <<45000, 1000>>)
              => data.temperature = 1178

\* The literal inputs have been compensated.
C18_Witness ==
    /\ pc = "acquired"
    /\ cfg.MEASURE_TEMPERATURE /\ cfg.COMPENSATE_TEMPERATURE
    /\ sensors.temperature = <<22, 1>>
    /\ sensors.cpu_temperature = <<45000, 1000>>
    /\ data.temperature = 1178

\* C19: rounding an already rounded value at the same precision changes
\* nothing: the temperature field, rounded by compensate_temperature and
\* again by calibrate_temperature, is the value rounded once.
C19_RoundingIdempotent ==
    (pc = "acquired" /\ cfg.MEASURE_TEMPERATURE) =>
        LET once == IF cfg.COMPENSATE_TEMPERATURE
                    THEN compensate_temperature(sensors.temperature,
                                                sensors.cpu_temperature)
                    ELSE round(sensors.temperature[1], sensors.temperature[2])
        IN  /\ data.temperature = once
            /\ round(data.temperature, Pow10(ROUND_DATA_TO_DP)) = data.temperature

\* A compensated temperature that sat halfway between two hundredths
\* (-18.375) and one below zero have been rounded twice.
C19_Witness ==
    /\ pc = "acquired"
    /\ cfg.MEASURE_TEMPERATURE /\ cfg.COMPENSATE_TEMPERATURE
    /\ sensors.temperature = <<9, 8>>
    /\ data.temperature = -1838

-----------------------------------------------------------------------------
(* Properties of the dispatch *)

\* C20: with SEND_TO_LUFTDATEN on, every tick whose sample is due and whose
\* acquisition returns attempts a push of that reading to Luftdaten.
C20_DueTickPushes ==
    (cfg.SEND_TO_LUFTDATEN /\ tick.attempted /\ tick.acquired) => push.called

-----------------------------------------------------------------------------
(* Properties of the display scene *)

\* C21: the scene changes only when the proximity value crosses the
\* threshold: a tick that polls a value above the threshold right after a
\* tick that also polled a value above it leaves the scene where it was.
C21_SceneAdvancesOncePerCrossing ==
    [][ (/\ pc = "loop" /\ ticks' = ticks + 1
         /\ tick.polled /\ tick.proximity > PROXIMITY_THRESHOLD
         /\ tick'.polled /\ tick'.proximity > PROXIMITY_THRESHOLD)
        => current_scene_id' = current_scene_id ]_vars

\* C22: current_scene_id is 0, 1 or 2 in every state, whatever the ticks,
\* the proximity values and the exceptions.
C22_SceneInRange ==
    current_scene_id \in 0..LAST_SCENE

\* The scene has gone round: three polls above the threshold took it from
\* 0 through 1 and 2 back to 0, with a failed tick in between.
C22_Witness ==
    /\ tick.polled
    /\ tick.proximity > PROXIMITY_THRESHOLD
    /\ tick.scene_before = LAST_SCENE
    /\ current_scene_id = 0
    /\ mainloop_errors

\* C23: mainloop_errors is False at start, becomes True on the first tick
\* that raises and is never reset: every render before the first failed
\* tick has a green background and every render after it a red one, also
\* when the later ticks succeed.
C23_ErrorFlagPersists ==
    /\ [](pc \in {"init", "gate"} => ~mainloop_errors)
    /\ [][ /\ mainloop_errors => mainloop_errors'
           /\ ticks' = ticks + 1 =>
                 /\ mainloop_errors' <=> (mainloop_errors \/ tick'.raised)
                 /\ tick'.rendered =>
                       tick'.status_bg =
                           IF mainloop_errors THEN "red" ELSE "green" ]_vars

\* A tick on which nothing raised rendered red, after a failed tick that
\* followed a green render.
C23_Witness ==
    /\ tick.rendered /\ tick.stop = "end"
    /\ tick.status_bg = "red"
    /\ mainloop_errors
    /\ ticks >= 3

-----------------------------------------------------------------------------
(* Properties of one call of send_to_luftdaten *)

\* C24: within one call the particulate submission failing (an exception
\* or a response that is not ok) does not keep the climate submission from
\* being attempted; each group is posted at most once and a call issues at
\* most two submissions.
C24_GroupsIndependentNoRetry ==
    push.called =>
        /\ Len(push.posts) <= 2
        /\ \A i, j \in 1..Len(push.posts) :
              push.posts[i] = push.posts[j] => i = j
        /\ (push.posts # <<>> /\ climate_data_dict(data) # {})
              => push.posts = <<"1", "11">>

\* The particulate post raised (or was answered not ok) and the climate
\* post was still made.
C24_Witness ==
    /\ push.called
    /\ push.pm \in {"bad", "ConnectionError", "Timeout", "RequestException"}
    /\ push.posts = <<"1", "11">>
    /\ push.climate = "ok"
    /\ push.result = -1

\* C25: with MEASURE_PM25 or MEASURE_PM10 disabled the call returns -1 and
\* issues no submission, even for a reading with climate fields; and a
\* climate submission is never issued unless the particulate submission
\* was attempted before it in the same call.
C25_NoPushWithoutBothParticulates ==
    push.called =>
        /\ ~(cfg.MEASURE_PM25 /\ cfg.MEASURE_PM10) =>
              (push.result = -1 /\ ~push.raised /\ push.posts = <<>>)
        /\ \A i \in 1..Len(push.posts) :
              push.posts[i] = "11" => (i > 1 /\ push.posts[1] = "1")

\* A reading with climate fields and one particulate field was refused.
C25_Witness ==
    /\ push.called
    /\ cfg.MEASURE_PM10 /\ ~cfg.MEASURE_PM25
    /\ {"P1", "temperature", "humidity"} \subseteq DOMAIN data
    /\ push.posts = <<>>
    /\ push.result = -1

-----------------------------------------------------------------------------
(* Frame properties of a tick *)

\* C26: a due tick whose acquisition raises has used up its interval:
\* previous_time is that tick's time, no row is written and no reading is
\* assigned, and a following tick less than one interval later does not
\* attempt an acquisition.
C26_FailedAcquisitionConsumesInterval ==
    [][ /\ (ticks' = ticks + 1 /\ tick'.attempted /\ tick'.stop = "acquire"
            /\ tick'.raised)
           => /\ previous_time' = tick'.cur
              /\ rows' = rows
              /\ data' = data /\ measurement_time' = measurement_time
        /\ (ticks' = ticks + 1 /\ ticks > 0
            /\ tick.attempted /\ tick.stop = "acquire" /\ tick.raised)
           => /\ tick'.prev = tick.cur
              /\ tick'.cur - tick.cur < update_delay => ~tick'.attempted
              /\ tick'.cur - tick.cur >= update_delay => tick'.attempted ]_vars

\* The acquisition of a due tick raised, and the tick half an interval
\* later attempted nothing.
C26_Witness ==
    /\ ticks >= 2
    /\ ~tick.attempted
    /\ tick.cur - tick.prev = update_delay \div 2
    /\ tick.prev = last_sample.time
    /\ mainloop_errors
    /\ data = EmptyReading
    /\ rows = <<>>
    /\ fired = 1

\* C27: a tick on which the interval has not elapsed leaves previous_time,
\* data, measurement_time and the local table as they were; it can change
\* only current_scene_id, and mainloop_errors when it raises.
C27_IdleTickFrame ==
    [][ (ticks' = ticks + 1 /\ pc = "loop" /\ ~tick'.attempted) =>
            /\ previous_time' = previous_time
            /\ data' = data
            /\ measurement_time' = measurement_time
            /\ rows' = rows /\ table' = table
            /\ (mainloop_errors' # mainloop_errors => tick'.raised) ]_vars

\* A tick that was not due and moved the scene, after a reading was stored.
C27_Witness ==
    /\ ~tick.attempted
    /\ ticks >= 2
    /\ rows # <<>>
    /\ tick.polled /\ current_scene_id # tick.scene_before
    /\ previous_time = tick.prev

-----------------------------------------------------------------------------
(* The earlier script (src/emi_test.py): read_values, add_data_to_db and
   its mainloop in local mode *)

\* if time_since_update > 30
EMI_UPDATE_SECONDS == 30

\* Seconds from one pass of the loop to the next: half the update time (two
\* passes make exactly 30 s) and just over it.
EmiDurations == {EMI_UPDATE_SECONDS \div 2, EMI_UPDATE_SECONDS + 1}

\* What pms5003.read() does on the first call and on the call after the
\* reset: it returns, or raises ReadTimeoutError or ChecksumMismatchError.
EmiParticulateReads ==
    {<<"ok", "ok">>, <<"error", "ok">>, <<"error", "error">>}

\* read_values(): the three climate values formatted "{:.2f}" (a number of
\* hundredths here), the particulates under P2 and P1; the particulate read
\* is retried once after a reset, and the second error leaves the function.
emi_read_values(raw, reads) ==
    [returned |-> reads[1] = "ok" \/ reads[2] = "ok",
     values |->
        [k \in {"temperature", "pressure", "humidity", "P2", "P1"} |->
            CASE k = "temperature" ->
                    compensate_temperature(raw.temperature, raw.cpu_temperature)
              [] k = "pressure" -> round(raw.pressure[1], raw.pressure[2])
              [] k = "humidity" -> round(raw.humidity[1], raw.humidity[2])
              [] k = "P2" -> raw.pm25
              [] k = "P1" -> raw.pm10]]

\* The keys add_data_to_db subscripts values with, in the order of VALUES.
emi_add_data_to_db_keys ==
    <<"temperature", "humidity", "pressure", "pm10", "pm25">>

\* add_data_to_db(conn, cursor, time, values): the row inserted; a key that
\* values does not hold raises KeyError before any statement is executed.
emi_add_data_to_db(time, values) ==
    LET keys == emi_add_data_to_db_keys
    IN  IF \A i \in 1..Len(keys) : keys[i] \in DOMAIN values
        THEN [raised |-> FALSE,
              row |-> <<time>> \o [i \in 1..Len(keys) |-> values[keys[i]]]]
        ELSE [raised |-> TRUE, row |-> <<>>]

\* The script at the top of mainloop(local=True): the table data exists
\* and update_time is the clock.
InitEmi ==
    /\ cfg = Default
    /\ pc = "emi_loop"
    /\ now \in StartTimes
    /\ previous_time = now
    /\ data = EmptyReading
    /\ measurement_time = NoTime
    /\ table = <<"time", "temperature", "humidity", "pressure", "pmlarge",
                 "pmsmall">>
    /\ rows = <<>>
    /\ connection = "open"
    /\ mainloop_errors = FALSE
    /\ current_scene_id = 0
    /\ exit_code = NoExit
    /\ released = <<>>
    /\ ticks = 0
    /\ tick = NoTick
    /\ last_sample = NoSample
    /\ fired = 0
    /\ faulted = FALSE
    /\ last_ok = [data |-> EmptyReading, time |-> NoTime]
    /\ push = NoPush
    /\ sensors = IdleRaw

\* One pass of the body of `while True` of the script's mainloop.
EmiTick(dt, raw, reads) ==
    /\ pc = "emi_loop"
    /\ ticks < MaxTicks
    /\ LET current_time == now + dt
           read == emi_read_values(raw, reads)
           due == read.returned
                  /\ current_time - previous_time > EMI_UPDATE_SECONDS
           insert == emi_add_data_to_db(current_time, read.values)
           stored == due /\ ~insert.raised
       IN  /\ now' = current_time
           /\ sensors' = IF read.returned THEN raw ELSE sensors
           /\ data' = IF read.returned THEN read.values ELSE data
           /\ measurement_time' =
                 IF read.returned THEN current_time ELSE measurement_time
           /\ last_ok' = IF read.returned
                         THEN [data |-> read.values, time |-> current_time]
                         ELSE last_ok
           /\ previous_time' = IF due THEN current_time ELSE previous_time
           /\ rows' = IF stored THEN Append(rows, insert.row) ELSE rows
           /\ fired' = IF due THEN fired + 1 ELSE fired
           /\ faulted' = (faulted \/ ~read.returned)
           /\ ticks' = ticks + 1
           /\ tick' = [NoTick EXCEPT
                          !.cur = current_time, !.prev = previous_time,
                          !.attempted = due, !.acquired = read.returned,
                          !.printed = read.returned, !.stored = stored,
                          !.raised = ~read.returned \/ (due /\ insert.raised),
                          !.transient = reads[1] # "ok",
                          !.stop = IF ~read.returned THEN "acquire"
                                   ELSE IF due /\ insert.raised THEN "store"
                                   ELSE "end"]
    /\ UNCHANGED <<cfg, pc, table, connection, mainloop_errors,
                   current_scene_id, exit_code, released, last_sample, push>>

NextEmi ==
    \E dt \in EmiDurations, raw \in RawSamples, reads \in EmiParticulateReads :
        EmiTick(dt, raw, reads)

SpecEmi == InitEmi /\ [][NextEmi]_vars

\* C28: in the script's mainloop in local mode, every pass on which
\* read_values returned and more than 30 s have elapsed since the last
\* update stores one row holding the time and the reading's temperature,
\* humidity, pressure, PM10 and PM2.5.
C28_EmiStoresRowWhenDue ==
    (pc = "emi_loop" /\ ticks > 0 /\ tick.acquired
     /\ tick.cur - tick.prev > EMI_UPDATE_SECONDS) =>
        /\ tick.stored
        /\ rows # <<>>
        /\ rows[Len(rows)] =
              <<tick.cur, data.temperature, data.humidity, data.pressure,
                data.P1, data.P2>>

=============================================================================
